---- MODULE Spec2Model ----
(***************************************************************************)
(* Model of mcmm.analysis: the MarkovStateModel container with its lazily  *)
(* computed, memoized properties, and the graph primitives it rests on     *)
(* (depth_first_search, strongly_connected_components,                     *)
(* component_is_closed, gcd).                                              *)
(*                                                                         *)
(* Numbers are exact rationals <<p, q>> in lowest terms with q > 0.        *)
(* A pandas.DataFrame is a record [index, columns, values]: index and      *)
(* columns map the positions 0..n-1 to labels, values maps a row position  *)
(* and a column position to a number.  A Python list is a sequence; its    *)
(* contents (node positions, labels) are the Python values, so node        *)
(* positions are 0-based.  An optional field is the empty tuple (None) or  *)
(* a one-element tuple holding the value.                                  *)
(***************************************************************************)
EXTENDS Integers, Sequences, FiniteSets, TLC

VARIABLES
    self,               \* the MarkovStateModel instance (record of its fields), or None
    adjacency_matrix,   \* the DataFrame handed to the module-level graph functions, or None
    result              \* outcome of the last call: [op, args, raised, value]

vars == <<self, adjacency_matrix, result>>

None == << >>
Some(v) == <<v>>

(***************************************************************************)
(* The outcome of a call as result records it: the operation, its          *)
(* arguments, the exception raised ("" when it returned) and the value     *)
(* returned.                                                               *)
(***************************************************************************)
NoCall == [op |-> "", args |-> << >>, raised |-> "", value |-> << >>]
Returned(op, args, value) == [op |-> op, args |-> args, raised |-> "", value |-> value]
Raised(op, args, exception) == [op |-> op, args |-> args, raised |-> exception, value |-> << >>]

(***************************************************************************)
(* Bounds of the model.                                                    *)
(***************************************************************************)
\* largest number of nodes of an adjacency matrix handed to the graph functions
MaxNodes == 3
\* largest number of states of a MarkovStateModel
MaxStates == 3

\* largest number of entries of a matrix handed to the constructor
MaxCells == 4
\* largest lag time handed to the constructor
MaxLagtime == 2
\* states of the nearest-neighbour walks the committors are computed on
MaxLineStates == 4

\* default of the parameter lagtime of MarkovStateModel.__init__
DefaultLagtime == 1

Range(n) == 0 .. (n - 1)

(***************************************************************************)
(* Exact rational arithmetic.                                              *)
(***************************************************************************)
Abs(x) == IF x < 0 THEN -x ELSE x

\* analysis.gcd: Euclid's algorithm, "while b != 0: b, a = a % b, b".
\* Python's % takes the sign of the divisor; so does TLA+'s for b > 0, and
\* every caller passes non-negative arguments.
RECURSIVE gcd(_, _)
gcd(a, b) == IF b # 0 THEN gcd(b, a % b) ELSE a

Frac(p, q) ==
    LET s == IF q < 0 THEN -1 ELSE 1
        g == gcd(Abs(p), Abs(q))
    IN  <<(s * p) \div g, (s * q) \div g>>

Zero == <<0, 1>>
One == <<1, 1>>
QAdd(x, y) == Frac(x[1] * y[2] + y[1] * x[2], x[2] * y[2])
QSub(x, y) == Frac(x[1] * y[2] - y[1] * x[2], x[2] * y[2])
QMul(x, y) == Frac(x[1] * y[1], x[2] * y[2])
QDiv(x, y) == Frac(x[1] * y[2], x[2] * y[1])
QNeg(x) == <<-x[1], x[2]>>
QLe(x, y) == x[1] * y[2] <= y[1] * x[2]
QLt(x, y) == x[1] * y[2] < y[1] * x[2]
QAbs(x) == <<Abs(x[1]), x[2]>>
\* Python truthiness of a number: non-zero
Truthy(x) == x[1] # 0

RECURSIVE QSum(_, _)
\* sum of f[i] over the finite set S of arguments
QSum(f, S) ==
    IF S = {} THEN Zero
    ELSE LET i == CHOOSE k \in S : TRUE
         IN  QAdd(f[i], QSum(f, S \ {i}))

(***************************************************************************)
(* pandas.DataFrame and list helpers.                                      *)
(***************************************************************************)
DataFrame(index, columns, values) ==
    [index |-> index, columns |-> columns, values |-> values]

\* DataFrame.shape
shape(df) == <<Cardinality(DOMAIN df.index), Cardinality(DOMAIN df.columns)>>

\* DataFrame.iat[i, j]: positional access
iat(df, i, j) == df.values[i][j]

\* position of a label in an Index of distinct labels
PositionOf(labels, l) == CHOOSE i \in DOMAIN labels : labels[i] = l

\* DataFrame.at[a, b]: label access
at(df, a, b) == df.values[PositionOf(df.index, a)][PositionOf(df.columns, b)]

\* DataFrame.T
Transpose(df) ==
    DataFrame(df.columns, df.index,
              [i \in DOMAIN df.columns |-> [j \in DOMAIN df.index |-> df.values[j][i]]])

\* DataFrame.loc[rows, cols] for lists of labels: rows and columns are taken
\* in the order of the lists and keep their labels
loc(df, rows, cols) ==
    DataFrame([i \in Range(Len(rows)) |-> rows[i + 1]],
              [j \in Range(Len(cols)) |-> cols[j + 1]],
              [i \in Range(Len(rows)) |->
                  [j \in Range(Len(cols)) |-> at(df, rows[i + 1], cols[j + 1])]])

\* the elements of a list, as a set
Elems(s) == {s[k] : k \in DOMAIN s}

\* list(index): the labels in position order
ListOf(labels) == [k \in 1 .. Cardinality(DOMAIN labels) |-> labels[k - 1]]

RECURSIVE Reversed(_)
Reversed(s) == IF s = << >> THEN << >> ELSE Append(Reversed(Tail(s)), Head(s))

RECURSIVE InsertSorted(_, _)
InsertSorted(s, x) ==
    IF s = << >> THEN <<x>>
    ELSE IF x < Head(s) THEN <<x>> \o s
    ELSE <<Head(s)>> \o InsertSorted(Tail(s), x)

RECURSIVE sorted(_)
\* sorted(c) on a list of labels: ascending
sorted(s) == IF s = << >> THEN << >> ELSE InsertSorted(sorted(Tail(s)), Head(s))

(***************************************************************************)
(* Graph primitives.                                                       *)
(***************************************************************************)
RECURSIVE depth_first_search(_, _, _)
RECURSIVE dfs_loop(_, _, _, _, _)

\* The body of "for vertex in range(adjacency_matrix.shape[0])" from
\* position vertex on, threading the result list and the (mutated) flags.
dfs_loop(adj, root, vertex, res, flags) ==
    IF vertex \notin DOMAIN adj.index
    THEN [result |-> Append(res, root), flags |-> flags]
    ELSE IF Truthy(iat(adj, root, vertex)) /\ ~flags[vertex]
         THEN LET sub == depth_first_search(adj, vertex, flags)
              IN  dfs_loop(adj, root, vertex + 1, res \o sub.result, sub.flags)
         ELSE dfs_loop(adj, root, vertex + 1, res, flags)

\* depth_first_search with the loop written "for vertex in range(1, n)"
depth_first_search_skip_first(adj, root, flags) ==
    dfs_loop(adj, root, 1, << >>, [flags EXCEPT ![root] = TRUE])

\* depth_first_search(adjacency_matrix, root, flags): the returned list and
\* the flags as the call leaves them
depth_first_search(adj, root, flags) ==
    dfs_loop(adj, root, 0, << >>, [flags EXCEPT ![root] = TRUE])

ClearFlags(n) == [i \in Range(n) |-> FALSE]

RECURSIVE scc_pass1(_, _, _, _)
\* first loop of strongly_connected_components, from node on
scc_pass1(adj, node, node_list, flags) ==
    IF node \notin DOMAIN adj.index THEN node_list
    ELSE IF ~flags[node]
         THEN LET sub == depth_first_search(adj, node, flags)
              IN  scc_pass1(adj, node + 1, node_list \o sub.result, sub.flags)
         ELSE scc_pass1(adj, node + 1, node_list, flags)

RECURSIVE scc_pass2_untransposed(_, _, _, _)
\* the second loop searching adjacency_matrix instead of adjacency_matrix.T
scc_pass2_untransposed(adj, todo, components, flags) ==
    IF todo = << >> THEN components
    ELSE IF ~flags[Head(todo)]
         THEN LET sub == depth_first_search(adj, Head(todo), flags)
                  comp == [k \in DOMAIN sub.result |-> adj.index[sub.result[k]]]
              IN  scc_pass2_untransposed(adj, Tail(todo), Append(components, comp), sub.flags)
         ELSE scc_pass2_untransposed(adj, Tail(todo), components, flags)

RECURSIVE scc_pass2(_, _, _, _)
\* second loop of strongly_connected_components over the remaining nodes
scc_pass2(adj, todo, components, flags) ==
    IF todo = << >> THEN components
    ELSE IF ~flags[Head(todo)]
         THEN LET sub == depth_first_search(Transpose(adj), Head(todo), flags)
                  comp == [k \in DOMAIN sub.result |-> adj.index[sub.result[k]]]
              IN  scc_pass2(adj, Tail(todo), Append(components, comp), sub.flags)
         ELSE scc_pass2(adj, Tail(todo), components, flags)

\* strongly_connected_components without "flags = [False] * len(nodes)"
\* between the two passes
strongly_connected_components_stale_flags(adj) ==
    LET n == shape(adj)[1]
        node_list == scc_pass1(adj, 0, << >>, ClearFlags(n))
    IN  scc_pass2(adj, Reversed(node_list), << >>, [i \in Range(n) |-> TRUE])

strongly_connected_components(adj) ==
    LET n == shape(adj)[1]
        node_list == scc_pass1(adj, 0, << >>, ClearFlags(n))
    IN  scc_pass2(adj, Reversed(node_list), << >>, ClearFlags(n))

\* component_is_closed looking at the edges that enter the component
component_is_closed_inward(component, adj) ==
    ~ \E a \in Elems(component) :
        \E b \in Elems(ListOf(adj.index)) \ Elems(component) :
            QLt(Zero, at(adj, b, a))

\* component_is_closed(component, adjacency_matrix)
component_is_closed(component, adj) ==
    ~ \E a \in Elems(component) :
        \E b \in Elems(ListOf(adj.index)) \ Elems(component) :
            QLt(Zero, at(adj, a, b))

(***************************************************************************)
(* Numerical primitives (numpy), on exact rationals.                       *)
(***************************************************************************)
\* np.isclose(a, b): |a - b| <= atol + rtol * |b| with the defaults
\* atol = 1e-8 and rtol = 1e-5, i.e. |a - b| * 10^8 <= 1 + 1000 * |b|.  The
\* test on pv keeps the products within 32 bits: beyond it the left side
\* exceeds every right side the model can form.
isclose(a, b) ==
    LET diff == QAbs(QSub(a, b))
        bound == QAdd(One, QMul(<<1000, 1>>, QAbs(b)))
        pv == diff[1] * bound[2]
    IN  IF pv > 20 THEN FALSE ELSE pv * 100000000 <= bound[1] * diff[2]

\* the square matrix m (over Range(k)) without row r and column c
Minor(m, k, r, c) ==
    [i \in Range(k - 1) |->
        [j \in Range(k - 1) |->
            m[IF i < r THEN i ELSE i + 1][IF j < c THEN j ELSE j + 1]]]

RECURSIVE DetTerms(_, _, _)
RECURSIVE Det(_, _)
\* expansion of the determinant along row 0, columns j..k-1
DetTerms(m, k, j) ==
    IF j >= k THEN Zero
    ELSE LET cof == QMul(m[0][j], Det(Minor(m, k, 0, j), k - 1))
         IN  QAdd(IF j % 2 = 0 THEN cof ELSE QNeg(cof), DetTerms(m, k, j + 1))

\* determinant of the k x k matrix m
Det(m, k) == IF k = 0 THEN One ELSE DetTerms(m, k, 0)

\* np.linalg.solve(m, rhs) for a k x k matrix: the unique solution (Cramer's
\* rule), or LinAlgError when m is singular
solve(m, rhs, k) ==
    LET det == Det(m, k)
    IN  IF det = Zero
        THEN [raised |-> "LinAlgError", value |-> << >>]
        ELSE [raised |-> "",
              value |-> [c \in Range(k) |->
                  QDiv(Det([i \in Range(k) |->
                               [j \in Range(k) |-> IF j = c THEN rhs[i] ELSE m[i][j]]], k),
                       det)]]

\* np.identity(n)
identity(n) == [i \in Range(n) |-> [j \in Range(n) |-> IF i = j THEN One ELSE Zero]]

\* np.linalg.eig followed by the sort of _right_eigen: the decomposition is
\* not computed; its two parts are named by the matrix that was decomposed
_right_eigen(matrix) ==
    <<[eigenvalues_of |-> matrix], [eigenvectors_of |-> matrix]>>

(***************************************************************************)
(* MarkovStateModel.                                                       *)
(***************************************************************************)
\* outcome of a method: the instance as the call leaves it, and the value
\* returned or the exception raised
Ret(s, v) == [self |-> s, raised |-> "", value |-> v]
Exc(s, e) == [self |-> s, raised |-> e, value |-> << >>]

CommunicationClass(states, closed) == [states |-> states, closed |-> closed]

\* MarkovStateModel.is_stochastic_matrix(A)
is_stochastic_matrix(A) ==
    /\ \A i \in DOMAIN A.index : \A j \in DOMAIN A.columns : QLe(Zero, A.values[i][j])
    /\ \A i \in DOMAIN A.index : \A j \in DOMAIN A.columns : QLe(A.values[i][j], One)
    /\ \A i \in DOMAIN A.index : isclose(QSum(A.values[i], DOMAIN A.columns), One)

\* __init__ without the comparison of the row and column labels
MarkovStateModel_labels_unchecked(transition_matrix, lagtime) ==
    IF ~is_stochastic_matrix(transition_matrix)
    THEN Exc(None, "InvalidValue")
    ELSE IF ~(shape(transition_matrix)[1] = shape(transition_matrix)[2])
    THEN Exc(None, "InvalidValue")
    ELSE Ret([_lagtime |-> lagtime,
              _states |-> transition_matrix.index,
              _transition_matrix |-> transition_matrix,
              _backward_transition_matrix |-> None,
              _stationary_distribution |-> None,
              _num_states |-> shape(transition_matrix)[1],
              _is_aperiodic |-> None,
              _eigenvalues |-> None,
              _left_eigenvectors |-> None,
              _right_eigenvectors |-> None,
              _communication_classes |-> None], << >>)

\* MarkovStateModel.__init__(transition_matrix, lagtime): the new instance,
\* or the exception raised
MarkovStateModel(transition_matrix, lagtime) ==
    IF ~is_stochastic_matrix(transition_matrix)
    THEN Exc(None, "InvalidValue")
    ELSE IF ~(shape(transition_matrix)[1] = shape(transition_matrix)[2])
    THEN Exc(None, "InvalidValue")
    ELSE IF ~(\A i \in DOMAIN transition_matrix.index :
                transition_matrix.columns[i] = transition_matrix.index[i])
    THEN Exc(None, "InvalidValue")
    ELSE Ret([_lagtime |-> lagtime,
              _states |-> transition_matrix.index,
              _transition_matrix |-> transition_matrix,
              _backward_transition_matrix |-> None,
              _stationary_distribution |-> None,
              _num_states |-> shape(transition_matrix)[1],
              _is_aperiodic |-> None,
              _eigenvalues |-> None,
              _left_eigenvectors |-> None,
              _right_eigenvectors |-> None,
              _communication_classes |-> None], << >>)

RECURSIVE InsertBySize_behind_ties(_, _)
\* c placed in front of the first class of s that is smaller than c
InsertBySize_behind_ties(s, c) ==
    IF s = << >> THEN <<c>>
    ELSE IF Len(Head(s).states) >= Len(c.states)
         THEN <<Head(s)>> \o InsertBySize_behind_ties(Tail(s), c)
         ELSE <<c>> \o s

RECURSIVE InsertBySize(_, _)
\* c placed in front of the first class of s that is not larger than c
InsertBySize(s, c) ==
    IF s = << >> THEN <<c>>
    ELSE IF Len(Head(s).states) > Len(c.states)
         THEN <<Head(s)>> \o InsertBySize(Tail(s), c)
         ELSE <<c>> \o s

RECURSIVE sort_by_size(_)
\* list.sort(key=lambda c: len(c.states), reverse=True): stable, descending
sort_by_size(s) ==
    IF s = << >> THEN << >> ELSE InsertBySize(sort_by_size(Tail(s)), Head(s))

\* the classes of the components, as communication_classes builds them
classes_of(components, transition_matrix) ==
    [k \in DOMAIN components |->
        CommunicationClass(sorted(components[k]),
                           component_is_closed(components[k], transition_matrix))]

\* property communication_classes
communication_classes(s) ==
    LET classes == sort_by_size(
            IF s._communication_classes = None
            THEN classes_of(strongly_connected_components(s._transition_matrix),
                            s._transition_matrix)
            ELSE s._communication_classes[1])
    IN  Ret([s EXCEPT !._communication_classes = Some(classes)], classes)

\* is_irreducible taken from the closed flag of the largest class
is_irreducible_of_largest_closed(classes) == Ret(classes.self, classes.value[1].closed)

\* is_irreducible, given the outcome of self.communication_classes
is_irreducible_of(classes) == Ret(classes.self, Len(classes.value) = 1)

\* property is_irreducible
is_irreducible(s) == is_irreducible_of(communication_classes(s))

\* pos.dot(self._transition_matrix) followed by pos[:] = pos[:] > 0.  The
\* entries of pos and of a validated transition matrix are not negative, so
\* a component of the product is positive exactly when one of its terms is.
propagate(tm, pos) ==
    [j \in DOMAIN tm.columns |->
        IF \E i \in DOMAIN tm.index : QLt(Zero, QMul(pos[i], tm.values[i][j]))
        THEN One ELSE Zero]

\* "period = gcd(i, period) if not period == -1 else i" when pos[s] == 1
next_period(i, period, returned) ==
    IF returned THEN (IF ~(period = -1) THEN gcd(i, period) ELSE i) ELSE period

RECURSIVE aperiodicity_walk_short(_, _, _, _, _)
\* the walk with the loop written "for i in range(1, self._num_states)"
aperiodicity_walk_short(s, state, i, pos, period) ==
    IF i >= s._num_states THEN period
    ELSE IF next_period(i, period, propagate(s._transition_matrix, pos)[state] = One) = 1
         THEN 1
         ELSE aperiodicity_walk_short(s, state, i + 1, propagate(s._transition_matrix, pos),
                  next_period(i, period, propagate(s._transition_matrix, pos)[state] = One))

RECURSIVE aperiodicity_walk(_, _, _, _, _)
\* the loop "for i in range(1, 2 * self._num_states)" of
\* _determine_aperiodicity from step i on, pos and period as step i finds
\* them: the value of period when the loop is left
aperiodicity_walk(s, state, i, pos, period) ==
    IF i >= 2 * s._num_states THEN period
    ELSE IF next_period(i, period, propagate(s._transition_matrix, pos)[state] = One) = 1
         THEN 1
         ELSE aperiodicity_walk(s, state, i + 1, propagate(s._transition_matrix, pos),
                  next_period(i, period, propagate(s._transition_matrix, pos)[state] = One))

\* the loop over the states left at the first state of period 1, whether
\* or not the chain is irreducible
aperiodicity_states_first_only(s, irred, state) ==
    IF state >= s._num_states THEN TRUE
    ELSE aperiodicity_walk(s, state, 1,
             [k \in Range(s._num_states) |-> IF k = state THEN One ELSE Zero], -1) = 1

RECURSIVE aperiodicity_states(_, _, _)
\* the loop "for s in range(0, self._num_states)" from state on
aperiodicity_states(s, irred, state) ==
    IF state >= s._num_states THEN TRUE
    ELSE IF aperiodicity_walk(s, state, 1,
                [k \in Range(s._num_states) |-> IF k = state THEN One ELSE Zero], -1) = 1
         THEN (IF irred THEN TRUE ELSE aperiodicity_states(s, irred, state + 1))
         ELSE FALSE

\* _determine_aperiodicity, given the outcome of self.is_irreducible
aperiodicity_of(irred) == Ret(irred.self, aperiodicity_states(irred.self, irred.value, 0))

\* _determine_aperiodicity()
_determine_aperiodicity(s) == aperiodicity_of(is_irreducible(s))

\* "self._is_aperiodic = self._determine_aperiodicity()"
store_is_aperiodic(determined) ==
    Ret([determined.self EXCEPT !._is_aperiodic = Some(determined.value)], determined.value)

\* property is_aperiodic
is_aperiodic(s) ==
    IF s._is_aperiodic = None
    THEN store_is_aperiodic(_determine_aperiodicity(s))
    ELSE Ret(s, s._is_aperiodic[1])

\* "self._eigenvalues, self._left_eigenvectors = eigen"
store_left_eigen(s, eigen) ==
    Ret([s EXCEPT !._eigenvalues = Some(eigen[1]), !._left_eigenvectors = Some(eigen[2])],
        eigen)

\* property left_eigen
left_eigen(s) ==
    IF s._left_eigenvectors = None
    THEN store_left_eigen(s, _right_eigen(Transpose(s._transition_matrix)))
    ELSE Ret(s, <<s._eigenvalues[1], s._left_eigenvectors[1]>>)

\* "self._eigenvalues, self._right_eigenvectors = eigen"
store_right_eigen(s, eigen) ==
    Ret([s EXCEPT !._eigenvalues = Some(eigen[1]), !._right_eigenvectors = Some(eigen[2])],
        eigen)

\* property right_eigen
right_eigen(s) ==
    IF s._right_eigenvectors = None
    THEN store_right_eigen(s, _right_eigen(s._transition_matrix))
    ELSE Ret(s, <<s._eigenvalues[1], s._right_eigenvectors[1]>>)

\* left_eigen[0]
first_of(left) == Ret(left.self, left.value[1])

\* property eigenvalues
eigenvalues(s) == first_of(left_eigen(s))

\* the cofactors of (I - T) at the diagonal
diagonal_cofactors(m, n) == [i \in Range(n) |-> Det(Minor(m, n, i, i), n - 1)]

\* v divided by the sum of its components
normalized(index, v, n) ==
    [index |-> index, values |-> [i \in Range(n) |-> QDiv(v[i], QSum(v, Range(n)))]]

\* The left eigenvector of an irreducible transition matrix for the
\* eigenvalue 1, divided by the sum of its components (lines 229-233): the
\* component of state i is proportional to the cofactor of (I - T) at (i, i).
PerronVector(tm) ==
    normalized(tm.columns,
        diagonal_cofactors(
            [i \in DOMAIN tm.index |->
                [j \in DOMAIN tm.columns |->
                    QSub(IF i = j THEN One ELSE Zero, tm.values[i][j])]],
            shape(tm)[1]),
        shape(tm)[1])

\* _find_stationary_distribution after the test of irreducibility, given the
\* outcome of self.left_eigen
eigenvector_of(left) == Ret(left.self, PerronVector(left.self._transition_matrix))

\* _find_stationary_distribution, given the outcome of self.is_irreducible
find_stationary_distribution_of(irred) ==
    IF ~irred.value
    THEN Exc(irred.self, "InvalidOperation")
    ELSE eigenvector_of(left_eigen(irred.self))

\* _find_stationary_distribution()
_find_stationary_distribution(s) == find_stationary_distribution_of(is_irreducible(s))

\* "self._stationary_distribution = self._find_stationary_distribution()"
store_stationary_distribution(found) ==
    IF found.raised # ""
    THEN found
    ELSE Ret([found.self EXCEPT !._stationary_distribution = Some(found.value)], found.value)

\* property stationary_distribution
stationary_distribution(s) ==
    IF s._stationary_distribution = None
    THEN store_stationary_distribution(_find_stationary_distribution(s))
    ELSE Ret(s, s._stationary_distribution[1])

\* self.transition_matrix.T.mul(pi, axis=1).mul(1/pi, axis=0): the columns
\* are multiplied, then the rows divided, by the component of pi with their
\* label
backward_matrix(t, pi) ==
    DataFrame(t.index, t.columns,
        [i \in DOMAIN t.index |->
            [j \in DOMAIN t.columns |->
                QMul(QMul(t.values[i][j], pi.values[PositionOf(pi.index, t.columns[j])]),
                     QDiv(One, pi.values[PositionOf(pi.index, t.index[i])]))]])

\* "self._backward_transition_matrix = ..." given the matrix
store_backward_transition_matrix(s, matrix) ==
    Ret([s EXCEPT !._backward_transition_matrix = Some(matrix)], matrix)

\* backward_transition_matrix on a miss, given the outcome of
\* self.stationary_distribution
backward_transition_matrix_of(pi) ==
    IF pi.raised # ""
    THEN pi
    ELSE store_backward_transition_matrix(pi.self,
             backward_matrix(Transpose(pi.self._transition_matrix), pi.value))

\* property backward_transition_matrix
backward_transition_matrix(s) ==
    IF s._backward_transition_matrix = None
    THEN backward_transition_matrix_of(stationary_distribution(s))
    ELSE Ret(s, s._backward_transition_matrix[1])

\* np.allclose(a, b) on two DataFrames of the same shape: element by element,
\* by position
allclose(a, b) ==
    \A i \in DOMAIN a.index : \A j \in DOMAIN a.columns :
        isclose(a.values[i][j], b.values[i][j])

\* is_reversible, given the outcome of self.backward_transition_matrix
is_reversible_of(backward) ==
    IF backward.raised # ""
    THEN backward
    ELSE Ret(backward.self, allclose(backward.value, backward.self._transition_matrix))

\* property is_reversible
is_reversible(s) == is_reversible_of(backward_transition_matrix(s))

\* the positions one step after a position of S
StepSet(tm, S) ==
    {j \in DOMAIN tm.columns : \E i \in S : QLt(Zero, tm.values[i][j])}

RECURSIVE After(_, _, _)
\* the positions exactly l steps after a position of S
After(tm, S, l) == IF l = 0 THEN S ELSE After(tm, StepSet(tm, S), l - 1)

\* the lengths up to horizon of the closed walks through the position i
ReturnLengths(tm, i, horizon) == {l \in 1 .. horizon : i \in After(tm, {i}, l)}

RECURSIVE GcdOf(_)
\* gcd of a finite set of positive integers (0 for the empty set)
GcdOf(S) ==
    IF S = {} THEN 0
    ELSE LET x == CHOOSE y \in S : TRUE
         IN  gcd(x, GcdOf(S \ {x}))

\* np.count_nonzero(np.isclose(np.absolute(eigenvalues), 1)) for an
\* irreducible transition matrix: the eigenvalues are not computed; by the
\* Perron-Frobenius theorem the eigenvalues of modulus 1 are the d-th roots
\* of unity, d the gcd of the cycle lengths of the transition graph (every
\* cycle has at most as many steps as there are states).
unit_modulus_eigenvalues(tm) ==
    GcdOf(UNION {ReturnLengths(tm, i, shape(tm)[1]) : i \in DOMAIN tm.index})

\* period after the test of irreducibility, given the outcome of
\* self.left_eigen
count_unit_modulus_of(left) ==
    Ret(left.self, unit_modulus_eigenvalues(left.self._transition_matrix))

\* period without the test of irreducibility
period_unchecked(s) == count_unit_modulus_of(left_eigen(s))

\* period, given the outcome of self.is_irreducible
period_of(irred) ==
    IF ~irred.value
    THEN Exc(irred.self, "InvalidOperation")
    ELSE count_unit_modulus_of(left_eigen(irred.self))

\* property period
period(s) == period_of(is_irreducible(s))

\* T - np.identity(n)
minus_identity(T) ==
    DataFrame(T.index, T.columns,
        [i \in DOMAIN T.index |->
            [j \in DOMAIN T.columns |->
                QSub(T.values[i][j], IF i = j THEN One ELSE Zero)]])

\* -M.loc[C, B].sum(axis=1)
minus_d(M, C, B) ==
    [k \in Range(Len(C)) |-> QNeg(QSum([b \in B |-> at(M, C[k + 1], b)], B))]

\* the loop over result.index of _commitors, given the outcome of
\* np.linalg.solve; the counter c at position i is the number of earlier
\* positions whose state is in neither A nor B
fill_commitors(s, A, B, solved) ==
    Ret(s, [index |-> s._states,
            values |-> [i \in DOMAIN s._states |->
                IF s._states[i] \in A THEN Zero
                ELSE IF s._states[i] \in B THEN One
                ELSE solved.value[Cardinality({k \in DOMAIN s._states :
                         k < i /\ s._states[k] \notin A \cup B})]]])

\* _commitors from "if C:" on, given M = T - np.identity(n)
commitors_of(s, A, B, M, C) ==
    IF C # << >> /\ solve(loc(M, C, C).values, minus_d(M, C, B), Len(C)).raised # ""
    THEN Exc(s, "LinAlgError")
    ELSE fill_commitors(s, A, B, solve(loc(M, C, C).values, minus_d(M, C, B), Len(C)))

\* _commitors(A, B, T).  C is list(set(self._states) - set().union(A, B)):
\* the iteration order of a Python set is not determined by the program, so
\* the list is handed in, in one of its possible orders.
_commitors(s, A, B, T, C) == commitors_of(s, A, B, minus_identity(T), C)

\* forward_committors(A, B)
forward_committors(s, A, B, C) == _commitors(s, A, B, s._transition_matrix, C)

\* backward_commitors(A, B), given the outcome of
\* self.backward_transition_matrix
backward_commitors_of(backward, A, B, C) ==
    IF backward.raised # ""
    THEN backward
    ELSE _commitors(backward.self, B, A, backward.value, C)

\* backward_commitors(A, B)
backward_commitors(s, A, B, C) ==
    backward_commitors_of(backward_transition_matrix(s), A, B, C)

\* restriction after the assertion, given the outcome of the constructor
restriction_of(s, restricted) ==
    IF restricted.raised # "" THEN Exc(s, restricted.raised) ELSE Ret(s, restricted.self)

\* restriction with the class's states taken as positions
\* (self.transition_matrix.iloc[...]) and the labels found there
restriction_by_position(s, communication_class) ==
    IF ~communication_class.closed
    THEN Exc(s, "AssertionError")
    ELSE restriction_of(s, MarkovStateModel(
             loc(s._transition_matrix,
                 [k \in DOMAIN communication_class.states |->
                     s._transition_matrix.index[communication_class.states[k]]],
                 [k \in DOMAIN communication_class.states |->
                     s._transition_matrix.columns[communication_class.states[k]]]),
             DefaultLagtime))

\* restriction that selects the rows of the class and keeps every column
\* (self.transition_matrix.loc[communication_class.states, :])
restriction_of_rows(s, communication_class) ==
    IF ~communication_class.closed
    THEN Exc(s, "AssertionError")
    ELSE restriction_of(s, MarkovStateModel(
             loc(s._transition_matrix, communication_class.states,
                 ListOf(s._transition_matrix.columns)),
             DefaultLagtime))

\* restriction(communication_class)
restriction(s, communication_class) ==
    IF ~communication_class.closed
    THEN Exc(s, "AssertionError")
    ELSE restriction_of(s, MarkovStateModel(
             loc(s._transition_matrix, communication_class.states, communication_class.states),
             DefaultLagtime))

\* pd.DataFrame(pcca, index=self._states): the membership matrix that
\* msmtools.analysis.pcca returned, rows labelled with the states and columns
\* with 0..num_sets-1
pcca_frame(s, num_sets, membership) ==
    Ret(s, DataFrame(s._states, [j \in Range(num_sets) |-> j], membership))

\* pcca, given the outcome of self.is_reversible
pcca_of(reversible, num_sets, membership) ==
    IF reversible.raised # ""
    THEN reversible
    ELSE IF ~reversible.value
    THEN Exc(reversible.self, "InvalidOperation")
    ELSE IF num_sets > reversible.self._num_states
    THEN Exc(reversible.self, "InvalidValue")
    ELSE pcca_frame(reversible.self, num_sets, membership)

\* pcca(num_sets); membership is what msmtools.analysis.pcca returns if the
\* call gets that far
pcca(s, num_sets, membership) == pcca_of(is_reversible(s), num_sets, membership)

\* argmax with ties going to the last position of the maximum
argmax_last(row) ==
    CHOOSE j \in DOMAIN row :
        /\ \A h \in DOMAIN row : QLe(row[h], row[j])
        /\ \A h \in DOMAIN row : h > j => QLt(row[h], row[j])

\* Series.argmax of a row: the first position of its maximum
argmax(row) ==
    CHOOSE j \in DOMAIN row :
        /\ \A h \in DOMAIN row : QLe(row[h], row[j])
        /\ \A h \in DOMAIN row : h < j => QLt(row[h], row[j])

\* metastable_set_assignments, given the outcome of self.pcca
metastable_set_assignments_of(pcca_mat) ==
    IF pcca_mat.raised # ""
    THEN pcca_mat
    ELSE Ret(pcca_mat.self,
             [index |-> pcca_mat.self._states,
              values |-> [i \in DOMAIN pcca_mat.self._states |->
                  argmax(pcca_mat.value.values[
                      PositionOf(pcca_mat.value.index, pcca_mat.self._states[i])])]])

\* metastable_set_assignments(num_sets)
metastable_set_assignments(s, num_sets, membership) ==
    metastable_set_assignments_of(pcca(s, num_sets, membership))

RECURSIVE append_states(_, _, _, _)
\* the loop "for s in self._states" of metastable_sets from position i on
append_states(states, pcca_mat, i, sets) ==
    IF i \notin DOMAIN states THEN sets
    ELSE append_states(states, pcca_mat, i + 1,
             [sets EXCEPT ![argmax(pcca_mat.values[PositionOf(pcca_mat.index, states[i])]) + 1]
                 = Append(@, states[i])])

\* metastable_sets, given the outcome of self.pcca
metastable_sets_of(pcca_mat, num_sets) ==
    IF pcca_mat.raised # ""
    THEN pcca_mat
    ELSE Ret(pcca_mat.self,
             append_states(pcca_mat.self._states, pcca_mat.value, 0,
                           [g \in 1 .. num_sets |-> << >>]))

\* metastable_sets(num_sets)
metastable_sets(s, num_sets, membership) ==
    metastable_sets_of(pcca(s, num_sets, membership), num_sets)

\* label orders of an Index over n labels: the default RangeIndex 0..n-1 and
\* the same labels in descending order
LabelOrders(n) == {[i \in Range(n) |-> i], [i \in Range(n) |-> n - 1 - i]}

(***************************************************************************)
(* SpecGraph: the module-level graph functions applied to arbitrary 0/1    *)
(* adjacency matrices.                                                     *)
(***************************************************************************)
InitGraph ==
    /\ self = None
    /\ \E n \in 1 .. MaxNodes :
           \E labels \in LabelOrders(n) :
               \E values \in [Range(n) -> [Range(n) -> {Zero, One}]] :
                   adjacency_matrix = DataFrame(labels, labels, values)
    /\ result = NoCall

\* depth_first_search(adjacency_matrix, root, [False] * nodes), called once
\* on a freshly drawn matrix
CallDepthFirstSearch ==
    \E root \in DOMAIN adjacency_matrix.index :
        /\ result = NoCall
        /\ result' = Returned("depth_first_search", <<root>>,
               depth_first_search(adjacency_matrix, root,
                   ClearFlags(shape(adjacency_matrix)[1])).result)
        /\ UNCHANGED <<self, adjacency_matrix>>

\* strongly_connected_components(adjacency_matrix), called once on a freshly
\* drawn matrix
CallStronglyConnectedComponents ==
    /\ result = NoCall
    /\ result' = Returned("strongly_connected_components", << >>,
           strongly_connected_components(adjacency_matrix))
    /\ UNCHANGED <<self, adjacency_matrix>>

NextGraph == CallDepthFirstSearch \/ CallStronglyConnectedComponents

SpecGraph == InitGraph /\ [][NextGraph]_vars

(***************************************************************************)
(* Transition matrices the models are built from: the uniform random walk  *)
(* on a digraph in which every node has a successor (row i gives each      *)
(* successor of i the probability 1 / out-degree).                         *)
(***************************************************************************)
UniformWalk(labels, successors) ==
    DataFrame(labels, labels,
        [i \in DOMAIN labels |->
            [j \in DOMAIN labels |->
                IF j \in successors[i] THEN Frac(1, Cardinality(successors[i])) ELSE Zero]])

\* the effect of a method call on the instance and on the recorded outcome
Call(op, args, outcome) ==
    /\ self' = Some(outcome.self)
    /\ result' = [op |-> op, args |-> args, raised |-> outcome.raised, value |-> outcome.value]
    /\ UNCHANGED adjacency_matrix

(***************************************************************************)
(* Spec: one MarkovStateModel, built with the default lag time, and its    *)
(* properties read in any order, any number of times.                      *)
(***************************************************************************)
Init ==
    /\ \E n \in 1 .. MaxStates :
           \E labels \in LabelOrders(n) :
               \E successors \in [Range(n) -> (SUBSET Range(n)) \ {{}}] :
                   self = Some(MarkovStateModel(UniformWalk(labels, successors),
                                                DefaultLagtime).self)
    /\ adjacency_matrix = None
    /\ result = NoCall

Read_communication_classes ==
    Call("communication_classes", << >>, communication_classes(self[1]))

Read_is_irreducible ==
    Call("is_irreducible", << >>, is_irreducible(self[1]))

Read_is_aperiodic ==
    Call("is_aperiodic", << >>, is_aperiodic(self[1]))

Read_backward_transition_matrix ==
    Call("backward_transition_matrix", << >>, backward_transition_matrix(self[1]))

Read_period ==
    Call("period", << >>, period(self[1]))

Read_stationary_distribution ==
    Call("stationary_distribution", << >>, stationary_distribution(self[1]))

Read_is_reversible ==
    Call("is_reversible", << >>, is_reversible(self[1]))

Read_left_eigen ==
    Call("left_eigen", << >>, left_eigen(self[1]))

Read_right_eigen ==
    Call("right_eigen", << >>, right_eigen(self[1]))

Read_eigenvalues ==
    Call("eigenvalues", << >>, eigenvalues(self[1]))

Next ==
    \/ Read_communication_classes
    \/ Read_is_irreducible
    \/ Read_is_aperiodic
    \/ Read_backward_transition_matrix
    \/ Read_period
    \/ Read_stationary_distribution
    \/ Read_is_reversible
    \/ Read_left_eigen
    \/ Read_right_eigen
    \/ Read_eigenvalues

Spec == Init /\ [][Next]_vars

(***************************************************************************)
(* SpecConstruct: MarkovStateModel(transition_matrix, lagtime) applied to  *)
(* candidate matrices, valid and invalid.                                  *)
(***************************************************************************)
\* entries of a candidate matrix
CandidateEntries == {Frac(-1, 2), Zero, Frac(1, 2), One, Frac(3, 2)}

InitConstruct ==
    /\ self = None
    /\ adjacency_matrix = None
    /\ result = NoCall

\* one construction from a candidate with at most MaxCells entries
Construct ==
    \E rows \in 1 .. MaxCells, cols \in 1 .. MaxCells, lagtime \in 1 .. MaxLagtime :
        /\ rows * cols <= MaxCells
        /\ result = NoCall
        /\ \E index \in LabelOrders(rows), columns \in LabelOrders(cols) :
               \E values \in [Range(rows) -> [Range(cols) -> CandidateEntries]] :
                   LET candidate == DataFrame(index, columns, values)
                       outcome == MarkovStateModel(candidate, lagtime)
                   IN  /\ self' = IF outcome.raised = "" THEN Some(outcome.self) ELSE None
                       /\ result' = [op |-> "__init__", args |-> <<candidate, lagtime>>,
                                     raised |-> outcome.raised, value |-> << >>]
                       /\ UNCHANGED adjacency_matrix

NextConstruct == Construct

SpecConstruct == InitConstruct /\ [][NextConstruct]_vars

(***************************************************************************)
(* SpecRestriction: a model built with some lag time; its communication    *)
(* classes and its stationary distribution are read, and the model is      *)
(* restricted to one of the classes that communication_classes returned.   *)
(***************************************************************************)
InitRestriction ==
    /\ \E n \in 1 .. MaxStates :
           \E labels \in LabelOrders(n), lagtime \in 1 .. MaxLagtime :
               \E successors \in [Range(n) -> (SUBSET Range(n)) \ {{}}] :
                   self = Some(MarkovStateModel(UniformWalk(labels, successors),
                                                lagtime).self)
    /\ adjacency_matrix = None
    /\ result = NoCall

\* msm.restriction(classes[k]), classes a list that msm.communication_classes
\* returned before
CallRestriction ==
    /\ self[1]._communication_classes # None
    /\ \E k \in DOMAIN self[1]._communication_classes[1] :
           Call("restriction", <<self[1]._communication_classes[1][k]>>,
                restriction(self[1], self[1]._communication_classes[1][k]))

NextRestriction ==
    \/ Read_communication_classes
    \/ Read_stationary_distribution
    \/ CallRestriction

SpecRestriction == InitRestriction /\ [][NextRestriction]_vars

(***************************************************************************)
(* SpecPcca: pcca(num_sets), metastable_set_assignments(num_sets) and      *)
(* metastable_sets(num_sets) called once on a model of Spec.  What         *)
(* msmtools.analysis.pcca returns is not computed: it is any matrix of     *)
(* membership probabilities, one row per state and one column per set,     *)
(* each row summing to 1.                                                  *)
(***************************************************************************)
\* the rows of a membership matrix with k columns
MembershipRows(k) ==
    {row \in [Range(k) -> {Zero, Frac(1, 2), One}] : QSum(row, Range(k)) = One}

\* what msmtools.analysis.pcca(self.transition_matrix, num_sets) can return;
\* nothing is drawn when pcca raises before it gets to that call
Memberships(s, num_sets) ==
    IF pcca(s, num_sets, << >>).raised # ""
    THEN {<< >>}
    ELSE [Range(s._num_states) -> MembershipRows(num_sets)]

CallPcca ==
    /\ result = NoCall
    /\ \E num_sets \in 1 .. MaxStates + 1 :
           \E membership \in Memberships(self[1], num_sets) :
               Call("pcca", <<num_sets>>, pcca(self[1], num_sets, membership))

CallMetastableSetAssignments ==
    /\ result = NoCall
    /\ \E num_sets \in 1 .. MaxStates + 1 :
           \E membership \in Memberships(self[1], num_sets) :
               Call("metastable_set_assignments", <<num_sets, membership>>,
                 metastable_set_assignments(self[1], num_sets, membership))

CallMetastableSets ==
    /\ result = NoCall
    /\ \E num_sets \in 1 .. MaxStates + 1 :
           \E membership \in Memberships(self[1], num_sets) :
               Call("metastable_sets", <<num_sets, membership>>,
                 metastable_sets(self[1], num_sets, membership))

NextPcca == CallPcca \/ CallMetastableSetAssignments \/ CallMetastableSets

SpecPcca == Init /\ [][NextPcca]_vars

(***************************************************************************)
(* SpecCommittors: forward_committors(A, B) or backward_commitors(A, B)    *)
(* called on a model, A and B disjoint lists of states without             *)
(* repetition.  The models are the uniform walks of Spec and, with up to   *)
(* MaxLineStates states, the walks on a line: each state steps left, right *)
(* or either way (by position), and a step off the line stays in place.    *)
(***************************************************************************)
\* the position on the line of n states nearest to i
Clamp(n, i) == IF i < 0 THEN 0 ELSE IF i > n - 1 THEN n - 1 ELSE i

\* the successor sets of the walks on n states
Successors(n) ==
    IF n <= MaxStates
    THEN [Range(n) -> (SUBSET Range(n)) \ {{}}]
    ELSE {[i \in Range(n) |-> {Clamp(n, i + o) : o \in offsets[i]}] :
             offsets \in [Range(n) -> {{-1}, {1}, {-1, 1}}]}

InitCommittors ==
    /\ \E n \in 1 .. MaxLineStates :
           \E labels \in LabelOrders(n), successors \in Successors(n) :
               self = Some(MarkovStateModel(UniformWalk(labels, successors),
                                            DefaultLagtime).self)
    /\ adjacency_matrix = None
    /\ result = NoCall

\* the lists that list(S) can be for a set S: its elements in any order
ListsOf(S) ==
    {l \in [1 .. Cardinality(S) -> S] : \A h, k \in DOMAIN l : l[h] = l[k] => h = k}

\* the labels of an instance
StatesOf(s) == {s._states[i] : i \in DOMAIN s._states}

CallForwardCommittors ==
    /\ result = NoCall
    /\ \E A \in SUBSET StatesOf(self[1]) :
           \E B \in SUBSET (StatesOf(self[1]) \ A) :
               \E C \in ListsOf(StatesOf(self[1]) \ (A \cup B)) :
                   Call("forward_committors", <<A, B, C>>,
                        forward_committors(self[1], A, B, C))

CallBackwardCommitors ==
    /\ result = NoCall
    /\ \E A \in SUBSET StatesOf(self[1]) :
           \E B \in SUBSET (StatesOf(self[1]) \ A) :
               \E C \in ListsOf(StatesOf(self[1]) \ (A \cup B)) :
                   Call("backward_commitors", <<A, B, C>>,
                        backward_commitors(self[1], A, B, C))

NextCommittors == CallForwardCommittors \/ CallBackwardCommitors

SpecCommittors == InitCommittors /\ [][NextCommittors]_vars

(***************************************************************************)
(* Reference notions the properties are stated with.                       *)
(***************************************************************************)
\* edge i -> j between positions of a DataFrame: a non-zero entry
Edge(df, i, j) == Truthy(iat(df, i, j))

RECURSIVE ReachableFrom(_, _)
\* the positions reachable from the set S of positions (S included)
ReachableFrom(df, S) ==
    LET next == S \cup {j \in DOMAIN df.index : \E i \in S : Edge(df, i, j)}
    IN  IF next = S THEN S ELSE ReachableFrom(df, next)

\* every position is reachable from every position
StronglyConnected(df) ==
    \A i \in DOMAIN df.index : ReachableFrom(df, {i}) = DOMAIN df.index

\* the period of the chain: gcd of the lengths of its closed walks; walks of
\* up to three times the number of states are taken, beyond the 2n - 1 steps
\* the detector looks at
ChainPeriod(df) ==
    GcdOf(UNION {ReturnLengths(df, i, 3 * shape(df)[1]) : i \in DOMAIN df.index})

\* the directed cycle 0 -> 1 -> 2 -> 0 (by position)
IsThreeCycle(df) ==
    /\ shape(df) = <<3, 3>>
    /\ \A i, j \in Range(3) : df.values[i][j] = IF j = (i + 1) % 3 THEN One ELSE Zero

\* the derived fields of an instance
DerivedFields(s) ==
    <<s._backward_transition_matrix, s._stationary_distribution, s._eigenvalues,
      s._left_eigenvectors, s._right_eigenvectors, s._communication_classes,
      s._is_aperiodic>>

\* number of occurrences of x in the list s
Count(s, x) == Cardinality({k \in DOMAIN s : s[k] = x})

RECURSIVE Flatten(_)
\* the concatenation of the lists of the list ss
Flatten(ss) == IF ss = << >> THEN << >> ELSE Head(ss) \o Flatten(Tail(ss))

(***************************************************************************)
(* C1: strongly_connected_components returns components in which every     *)
(* state (label of the adjacency matrix) appears in exactly one component, *)
(* once: the components are pairwise disjoint and cover the state set.     *)
(***************************************************************************)
C1_ComponentsPartition ==
    result.op = "strongly_connected_components" =>
        LET members == Flatten(result.value)
            states == Elems(ListOf(adjacency_matrix.index))
        IN  /\ \A l \in states : Count(members, l) = 1
            /\ Elems(members) \subseteq states

C1_Witness ==
    /\ result.op = "strongly_connected_components"
    /\ Len(result.value) = 2
    /\ \E k \in DOMAIN result.value : Len(result.value[k]) = 2

(***************************************************************************)
(* C2: in the order strongly_connected_components returns the components,  *)
(* no edge leads from a state of a later component to a state of an        *)
(* earlier one.                                                            *)
(***************************************************************************)
C2_TopologicalOrder ==
    result.op = "strongly_connected_components" =>
        \A k1, k2 \in DOMAIN result.value :
            k1 < k2 =>
                \A a \in Elems(result.value[k2]), b \in Elems(result.value[k1]) :
                    ~Truthy(at(adjacency_matrix, a, b))

C2_Witness ==
    /\ result.op = "strongly_connected_components"
    /\ Len(result.value) = 3
    /\ \E a \in Elems(result.value[1]), b \in Elems(result.value[3]) :
           Truthy(at(adjacency_matrix, a, b))
    /\ \E a \in Elems(result.value[2]), b \in Elems(result.value[3]) :
           Truthy(at(adjacency_matrix, a, b))

(***************************************************************************)
(* C3: depth_first_search with all flags clear returns each node reachable *)
(* from root exactly once, root last, and the returned set is closed under *)
(* successors.                                                             *)
(***************************************************************************)
C3_DepthFirstSearch ==
    result.op = "depth_first_search" =>
        LET root == result.args[1]
            found == result.value
        IN  /\ Elems(found) = ReachableFrom(adjacency_matrix, {root})
            /\ \A v \in Elems(found) : Count(found, v) = 1
            /\ found[Len(found)] = root
            /\ \A v \in Elems(found) : \A w \in DOMAIN adjacency_matrix.index :
                   Edge(adjacency_matrix, v, w) => w \in Elems(found)

C3_Witness ==
    /\ result.op = "depth_first_search"
    /\ Len(result.value) = 2
    /\ Cardinality(DOMAIN adjacency_matrix.index) = 3
    /\ result.value[1] < result.args[1]

(***************************************************************************)
(* C4: construction fails with InvalidValue whenever the matrix is not     *)
(* square, or is not row-stochastic (an entry outside [0,1] or a row not   *)
(* summing to 1), or its row and column labels differ; whenever it         *)
(* succeeds, every derived field is uninitialized.                         *)
(***************************************************************************)
NotSquare(df) == Cardinality(DOMAIN df.index) # Cardinality(DOMAIN df.columns)

NotRowStochastic(df) ==
    \/ \E i \in DOMAIN df.index : \E j \in DOMAIN df.columns :
           QLt(df.values[i][j], Zero) \/ QLt(One, df.values[i][j])
    \/ \E i \in DOMAIN df.index : QSum(df.values[i], DOMAIN df.columns) # One

LabelsDiffer(df) == df.index # df.columns

C4_Construction ==
    result.op = "__init__" =>
        LET candidate == result.args[1]
        IN  /\ (NotSquare(candidate) \/ NotRowStochastic(candidate) \/ LabelsDiffer(candidate))
                   => (result.raised = "InvalidValue" /\ self = None)
            /\ result.raised = ""
                   => /\ self # None
                      /\ \A k \in DOMAIN DerivedFields(self[1]) :
                             DerivedFields(self[1])[k] = None

C4_Witness ==
    /\ result.op = "__init__"
    /\ result.raised = "InvalidValue"
    /\ ~NotSquare(result.args[1])
    /\ ~NotRowStochastic(result.args[1])
    /\ LabelsDiffer(result.args[1])

(***************************************************************************)
(* C5: on a reducible chain stationary_distribution, period and            *)
(* backward_transition_matrix each fail with InvalidOperation, on the      *)
(* first request and on every later one (nothing is cached that would let  *)
(* a later request succeed).                                               *)
(***************************************************************************)
C5_ReducibleFails ==
    ~StronglyConnected(self[1]._transition_matrix) =>
        /\ result.op \in {"stationary_distribution", "period", "backward_transition_matrix"}
               => result.raised = "InvalidOperation"
        /\ self[1]._stationary_distribution = None
        /\ self[1]._backward_transition_matrix = None

C5_Witness ==
    /\ self[1]._transition_matrix.values = identity(3)
    /\ result.op = "backward_transition_matrix"
    /\ result.raised = "InvalidOperation"
    /\ self[1]._is_aperiodic # None
    /\ self[1]._right_eigenvectors # None

(***************************************************************************)
(* C8: on an irreducible chain is_aperiodic is true exactly when the       *)
(* period of the chain (gcd of the lengths of all closed walks) is 1; the  *)
(* directed 3-cycle has period 3 and is_aperiodic false.                   *)
(***************************************************************************)
C8_AperiodicIffPeriodOne ==
    LET tm == self[1]._transition_matrix
    IN  /\ (result.op = "is_aperiodic" /\ StronglyConnected(tm))
               => result.value = (ChainPeriod(tm) = 1)
        /\ (result.op = "is_aperiodic" /\ IsThreeCycle(tm)) => result.value = FALSE
        /\ (result.op = "period" /\ IsThreeCycle(tm)) => result.value = 3

C8_Witness ==
    /\ IsThreeCycle(self[1]._transition_matrix)
    /\ result.op = "is_aperiodic"
    /\ result.value = FALSE

\* the labels of the list states that are in the index, in index order
KeptInOrder(index, states) ==
    LET positions == {i \in DOMAIN index : index[i] \in Elems(states)}
    IN  [k \in Range(Cardinality(positions)) |->
            index[CHOOSE i \in positions :
                      Cardinality({h \in positions : h < i}) = k]]

\* rows and columns of restricted carry the labels order, and the entry at
\* (a, b) is the entry of original at (a, b)
IsSubmatrixOn(restricted, original, order) ==
    /\ restricted.index = order
    /\ restricted.columns = order
    /\ DOMAIN restricted.values = DOMAIN order
    /\ \A i \in DOMAIN order :
           /\ DOMAIN restricted.values[i] = DOMAIN order
           /\ \A j \in DOMAIN order :
                  restricted.values[i][j] = at(original, order[i], order[j])

\* a restriction to a closed class has returned
RestrictionReturned == result.op = "restriction" /\ result.raised = ""

(***************************************************************************)
(* C6 as stated: restriction to a closed communication class returns a     *)
(* model whose transition matrix is the principal submatrix of the         *)
(* original on the class's states, rows and columns in the same relative   *)
(* order as in the original matrix, labelled with the class's labels.      *)
(***************************************************************************)
C6_OriginalOrder ==
    RestrictionReturned =>
        IsSubmatrixOn(result.value._transition_matrix, self[1]._transition_matrix,
            KeptInOrder(self[1]._transition_matrix.index, result.args[1].states))

(***************************************************************************)
(* C6 amended: restriction to a closed communication class returns a model *)
(* whose transition matrix is the principal submatrix of the original on   *)
(* the class's states, labelled with the class's labels, rows and columns  *)
(* in ascending order of the labels (the order of the class's states       *)
(* list).                                                                  *)
(***************************************************************************)
C6_RestrictionSubmatrix ==
    (result.op = "restriction" /\ result.args[1].closed) =>
        /\ result.raised = ""
        /\ \A k \in 1 .. Len(result.args[1].states) - 1 :
               result.args[1].states[k] < result.args[1].states[k + 1]
        /\ IsSubmatrixOn(result.value._transition_matrix,
               self[1]._transition_matrix,
               [i \in Range(Len(result.args[1].states)) |->
                   result.args[1].states[i + 1]])

\* a model whose labels descend was restricted to a closed class of two of
\* its three states
C6_Witness ==
    /\ RestrictionReturned
    /\ self[1]._num_states = 3
    /\ self[1]._transition_matrix.index[0] > self[1]._transition_matrix.index[1]
    /\ Len(result.args[1].states) = 2
    /\ result.value._num_states = 2

(***************************************************************************)
(* C7: the model returned by restriction has its states re-labeled to a    *)
(* contiguous zero-based range: for a class of n states the states of the  *)
(* restricted model are 0, 1, ..., n-1.                                    *)
(***************************************************************************)
C7_ZeroBasedStates ==
    RestrictionReturned =>
        result.value._states = [i \in Range(Len(result.args[1].states)) |-> i]

\* the committor equation of the state with label a: with M = T - I, zero
\* the labels of the states of value 0 and one those of value 1,
\*     sum over the other states t of M[a, t] * q[t]  +  sum over b in one
\*     of M[a, b]  =  0
\* (the row of a in the linear system M[C, C] x = -d, x read at the states'
\* own labels)
CommittorEquation(T, values, zero, one, a) ==
    QAdd(QSum([t \in DOMAIN T.index |->
                  IF T.index[t] \in zero \cup one THEN Zero
                  ELSE QMul(QSub(at(T, a, T.index[t]), IF T.index[t] = a THEN One ELSE Zero),
                            values[t])],
              DOMAIN T.index),
         QSum([t \in DOMAIN T.index |->
                  IF T.index[t] \in one
                  THEN QSub(at(T, a, T.index[t]), IF T.index[t] = a THEN One ELSE Zero)
                  ELSE Zero],
              DOMAIN T.index)) = Zero

\* committors is the committor from zero to one for the transition matrix T
IsCommittor(committors, states, T, zero, one) ==
    /\ committors.index = states
    /\ DOMAIN committors.values = DOMAIN states
    /\ \A i \in DOMAIN states :
           IF states[i] \in zero THEN committors.values[i] = Zero
           ELSE IF states[i] \in one THEN committors.values[i] = One
           ELSE CommittorEquation(T, committors.values, zero, one, states[i])

(***************************************************************************)
(* C9: for disjoint A and B, forward_committors(A, B) returns one value    *)
(* per state in model state order; every state in A has value 0, every     *)
(* state in B value 1, and every other state the component of the          *)
(* linear-system solution that belongs to that state; when A union B is    *)
(* the whole state set the call returns (no linear system is solved).      *)
(***************************************************************************)
C9_ForwardCommittors ==
    result.op = "forward_committors" =>
        /\ result.args[3] = << >> => result.raised = ""
        /\ result.raised = "" =>
               IsCommittor(result.value, self[1]._states, self[1]._transition_matrix,
                           result.args[1], result.args[2])

(***************************************************************************)
(* C10: in the result of backward_commitors(A, B) every state in A has     *)
(* value 1, every state in B value 0, and the remaining states take the    *)
(* solution of the linear system built from the backward transition        *)
(* matrix with B as the zero set and A as the one set.                     *)
(***************************************************************************)
C10_BackwardCommitors ==
    (result.op = "backward_commitors" /\ result.raised = "") =>
        /\ self[1]._backward_transition_matrix # None
        /\ IsCommittor(result.value, self[1]._states,
                       self[1]._backward_transition_matrix[1],
                       result.args[2], result.args[1])

(***************************************************************************)
(* C11: pcca(num_sets) with num_sets greater than the number of states     *)
(* fails with InvalidValue on every model, whatever its reversibility or   *)
(* irreducibility; with a valid num_sets on a non-reversible model it      *)
(* fails with InvalidOperation.                                            *)
(***************************************************************************)
C11_PccaErrors ==
    result.op = "pcca" =>
        IF result.args[1] > self[1]._num_states
        THEN result.raised = "InvalidValue"
        ELSE (is_reversible(self[1]).raised # "" \/ ~is_reversible(self[1]).value)
                 => result.raised = "InvalidOperation"

\* the number of groups of sets that hold the state
GroupsHolding(sets, state) ==
    Cardinality({<<g, k>> \in (DOMAIN sets) \X (1 .. MaxStates) :
                    k \in DOMAIN sets[g] /\ sets[g][k] = state})

(***************************************************************************)
(* C12: for every membership matrix that pcca(k) returns, metastable_sets  *)
(* returns exactly k groups (some possibly empty) in which every state of  *)
(* the model appears exactly once, each state in the group whose index is  *)
(* the first column of maximum membership probability in its row.          *)
(***************************************************************************)
C12_MetastableSets ==
    (result.op = "metastable_sets" /\ result.raised = "") =>
        /\ Len(result.value) = result.args[1]
        /\ \A i \in DOMAIN self[1]._states :
               /\ GroupsHolding(result.value, self[1]._states[i]) = 1
               /\ \E g \in 1 .. result.args[1] :
                      /\ self[1]._states[i] \in Elems(result.value[g])
                      /\ \A h \in Range(result.args[1]) :
                             QLe(result.args[2][i][h], result.args[2][i][g - 1])
                      /\ \A h \in Range(result.args[1]) :
                             h < g - 1 => QLt(result.args[2][i][h], result.args[2][i][g - 1])

\* three sets on three states with a tie in a row and an empty group
C12_Witness ==
    /\ result.op = "metastable_sets"
    /\ result.raised = ""
    /\ result.args[1] = 3
    /\ self[1]._num_states = 3
    /\ \E i \in Range(3) : result.args[2][i] = [h \in Range(3) |-> IF h = 0 THEN Zero ELSE Frac(1, 2)]
    /\ \E g \in 1 .. 3 : result.value[g] = << >>
    /\ self[1]._states[0] = 2

(***************************************************************************)
(* C13: over any sequence of accessor calls each cached derived field      *)
(* (backward transition matrix, stationary distribution, eigenvalues, left *)
(* eigenvectors, right eigenvectors, communication classes, aperiodicity   *)
(* flag) is written at most once: once computed it is never recomputed or  *)
(* overwritten.                                                            *)
(***************************************************************************)
C13_WrittenOnce ==
    [][\A k \in DOMAIN DerivedFields(self[1]) :
           DerivedFields(self[1])[k] # None =>
               DerivedFields(self'[1])[k] = DerivedFields(self[1])[k]]_vars

C14_ClosedFlag ==
    self[1]._communication_classes # None =>
        \A k \in DOMAIN self[1]._communication_classes[1] :
            LET class == self[1]._communication_classes[1][k]
                tm    == self[1]._transition_matrix
                leaves == \E i, j \in DOMAIN tm.index :
                              /\ tm.index[i] \in Elems(class.states)
                              /\ tm.index[j] \notin Elems(class.states)
                              /\ QLt(Zero, tm.values[i][j])
            IN  class.closed = ~leaves

\* a class of two states that is left and a closed class, labels 2, 1, 0
C14_Witness ==
    /\ result.op = "communication_classes"
    /\ self[1]._states[0] = 2
    /\ Len(result.value) = 2
    /\ Len(result.value[1].states) = 2
    /\ ~result.value[1].closed
    /\ result.value[2].closed

(***************************************************************************)
(* C15: is_irreducible is true exactly when every state is reachable from  *)
(* every other state along transitions of positive probability, and two    *)
(* states lie in the same communication class exactly when each is         *)
(* reachable from the other.                                               *)
(***************************************************************************)
C15_Irreducible ==
    LET tm == self[1]._transition_matrix
    IN  /\ result.op = "is_irreducible" => result.value = StronglyConnected(tm)
        /\ self[1]._communication_classes # None =>
               \A i, j \in DOMAIN tm.index :
                   (\E k \in DOMAIN self[1]._communication_classes[1] :
                        {tm.index[i], tm.index[j]}
                            \subseteq Elems(self[1]._communication_classes[1][k].states))
                   <=> (j \in ReachableFrom(tm, {i}) /\ i \in ReachableFrom(tm, {j}))

\* a chain of three states that is not irreducible, two of its states
\* communicating
C15_Witness ==
    /\ result.op = "is_irreducible"
    /\ result.value = FALSE
    /\ self[1]._num_states = 3
    /\ Len(self[1]._communication_classes[1]) = 2

\* the position i returns to itself and the gcd of the lengths of its return
\* walks is 1
ReturnsWithPeriodOne(df, i) ==
    /\ ReturnLengths(df, i, 3 * shape(df)[1]) # {}
    /\ GcdOf(ReturnLengths(df, i, 3 * shape(df)[1])) = 1

(***************************************************************************)
(* C16: for every transition matrix, reducible ones included, is_aperiodic *)
(* is true exactly when every state returns to itself and the gcd of the   *)
(* lengths of all its return walks is 1 (walks of up to three times the    *)
(* number of states are taken, beyond the 2n - 1 steps the detector looks  *)
(* at; they determine the gcd).                                            *)
(***************************************************************************)
C16_Aperiodic ==
    result.op = "is_aperiodic" =>
        result.value = \A i \in DOMAIN self[1]._transition_matrix.index :
                           ReturnsWithPeriodOne(self[1]._transition_matrix, i)

\* a reducible chain whose first state has period 1 and a later state never
\* returns
C16_Witness ==
    /\ result.op = "is_aperiodic"
    /\ result.value = FALSE
    /\ ~StronglyConnected(self[1]._transition_matrix)
    /\ ReturnsWithPeriodOne(self[1]._transition_matrix, 0)
    /\ \E i \in DOMAIN self[1]._transition_matrix.index :
           ReturnLengths(self[1]._transition_matrix, i, 3 * self[1]._num_states) = {}

\* the place in the list components of the component with the sorted states
DiscoveryPlace(components, states) ==
    CHOOSE p \in DOMAIN components : sorted(components[p]) = states

\* classes is in descending order of size, classes of one size in the order
\* of the list components
SortedBySize(classes, components) ==
    \A k, l \in DOMAIN classes :
        k < l =>
            \/ Len(classes[k].states) > Len(classes[l].states)
            \/ /\ Len(classes[k].states) = Len(classes[l].states)
               /\ DiscoveryPlace(components, classes[k].states)
                      < DiscoveryPlace(components, classes[l].states)

(***************************************************************************)
(* C18: communication_classes returns the classes in descending order of   *)
(* their number of states, classes of equal size in the order in which     *)
(* strongly_connected_components found them, and every later access        *)
(* returns the list in the same order.                                     *)
(***************************************************************************)
C18_SortedClasses ==
    [][/\ result'.op = "communication_classes" =>
              SortedBySize(result'.value,
                           strongly_connected_components(self[1]._transition_matrix))
       /\ (result'.op = "communication_classes" /\ self[1]._communication_classes # None)
              => result'.value = self[1]._communication_classes[1]]_vars

\* three classes of one state each, not found in the order of the labels
C18_Witness ==
    /\ result.op = "communication_classes"
    /\ Len(result.value) = 3
    /\ result.value[1].states # <<self[1]._states[0]>>
    /\ self[1]._states[0] = 0

(***************************************************************************)
(* C19: restriction to a closed communication class of a valid model       *)
(* succeeds, and the model it returns is irreducible: it has exactly one   *)
(* communication class, and that class is closed and contains all of its   *)
(* states.                                                                 *)
(***************************************************************************)
C19_RestrictionIrreducible ==
    (result.op = "restriction" /\ result.args[1].closed) =>
        /\ result.raised = ""
        /\ is_irreducible(result.value).value
        /\ StronglyConnected(result.value._transition_matrix)
        /\ Len(communication_classes(result.value).value) = 1
        /\ communication_classes(result.value).value[1].closed
        /\ Elems(communication_classes(result.value).value[1].states)
               = Elems(ListOf(result.value._states))

\* a model of three states restricted to a closed class of two of them
C19_Witness ==
    /\ RestrictionReturned
    /\ self[1]._num_states = 3
    /\ Len(self[1]._communication_classes[1]) = 2
    /\ result.value._num_states = 2
    /\ Len(communication_classes(result.value).value) = 1

(***************************************************************************)
(* C20: the model that restriction returns has the lag time of the model   *)
(* it was restricted from, and the call leaves the original model (its     *)
(* transition matrix, states, lag time and cached fields) unchanged.       *)
(***************************************************************************)
C20_SameLagtime ==
    [][result'.op = "restriction" =>
           /\ self' = self
           /\ (result'.raised = "" => result'.value._lagtime = self[1]._lagtime)]_vars

====
